---- MODULE Spec2Model ----
(***************************************************************************)
(* State-machine model of the portfolio page scripts.                      *)
(*                                                                         *)
(* The repository holds three builds of the page script:                   *)
(*   "ts"      src/src/script.ts lines 1-259 (theme, form, gallery; the    *)
(*             App wraps construction in try/catch; one project record)    *)
(*   "dist"    src/dist/script.js (the same classes compiled, three        *)
(*             project records)                                            *)
(*   "scroll"  src/src/script.ts lines 260-436 and src/unnamed/part_000    *)
(*             (isDark theme, navigation, plain form, smooth scroll; the   *)
(*             App has no try/catch)                                       *)
(*   "gallery" src/unnamed/part_001 (theme and gallery only)               *)
(* Strings the code inspects character by character (form field values)    *)
(* are sequences of one-character strings; other texts are TLA+ strings.   *)
(***************************************************************************)
EXTENDS Integers, Sequences, FiniteSets, TLC

VARIABLES
    variant,        \* which build of the script the page loads
    present,        \* the elements of the markup that exist, among those the build looks up
    initialStored,  \* history: what localStorage held under 'theme' when the page loaded
    storage,        \* localStorage 'theme': <<>> when absent, <<v>> when it holds v
    currentTheme,   \* ThemeManager.currentTheme (ts, dist, gallery)
    isDark,         \* ThemeManager.isDark (scroll)
    darkClass,      \* body.classList contains 'dark-theme'
    listeners,      \* the event listeners that have been attached
    menuActive,     \* .nav-links has class 'active'
    hamSinceLink,   \* history: hamburger clicks handled since the last nav link click
    fields,         \* values of the form controls name, email, message
    pending,        \* submitForm timers that have not fired yet, oldest first
    alerts,         \* the alert() texts shown by the handler that ran last
    console,        \* the console lines written by the handler that ran last
    ev,             \* the handler that ran last
    pc,             \* "loading" before DOMContentLoaded, "ready" after
    uncaught,       \* an exception escaped the DOMContentLoaded listener
    attempted,      \* manager constructors the App has invoked, in order
    constructed,    \* manager constructors that returned normally, in order
    projects,       \* ProjectManager.projects
    container,      \* children of .project-grid
    beforeClicks,   \* history: the dark class and stored value before each of the
                    \* latest (at most two) consecutive theme toggle clicks
    iconClass,      \* the glyph class of the <i> inside .theme-toggle, "none" without one
    outcome,        \* what the handler that ran last did to its event and the viewport
    initError,      \* <<message>> of the exception that ended the App's construction
    trace,          \* history: the phases the submission attempt handled last went
                    \* through in that handler
    fired,          \* history: number of submitForm timers fired, modulo MaxPending + 1
    lookup,         \* a document, a selector and what DOMSelectors returned for them
    other           \* a second tab on the same page and storage: its ThemeManager's
                    \* fields and its body's dark class; pc "closed" when there is none

vars == <<variant, present, initialStored, storage, currentTheme, isDark, darkClass,
          listeners, menuActive, hamSinceLink, fields, pending, alerts, console, ev,
          pc, uncaught, attempted, constructed, projects, container, beforeClicks,
          iconClass, outcome, initError, trace, fired, lookup, other>>

----------------------------------------------------------------------------
(* Bounds *)

MaxPending == 2

MaxClicks == 3

MaxProjects == 3

MaxElements == 3

MaxEmailLen == 5

----------------------------------------------------------------------------
(* Builds and markup *)

Variants == {"ts", "dist", "scroll", "gallery"}

TryCatchVariants == {"ts", "dist", "gallery"}

AppOrder(v) ==
    CASE v \in {"ts", "dist"} -> <<"ThemeManager", "FormManager", "ProjectManager">>
      [] v = "scroll" -> <<"ThemeManager", "NavigationManager", "FormManager",
                           "SmoothScrollManager">>
      [] v = "gallery" -> <<"ThemeManager", "ProjectManager">>

\* The elements each build looks up while constructing its managers.
Lookups(v) ==
    CASE v \in {"ts", "dist"} -> {".theme-toggle", ".theme-toggle i", "#contact-form",
                                  ".project-grid"}
      [] v = "scroll" -> {".theme-toggle", ".theme-toggle i", ".hamburger", ".nav-links",
                          ".nav-links a", "#contact-form", "a[href^=#]"}
      [] v = "gallery" -> {".theme-toggle", ".theme-toggle i", ".project-grid"}

\* An anchor inside .nav-links exists only if .nav-links does, an icon inside
\* .theme-toggle only if .theme-toggle does.
WellFormed(P) ==
    /\ (".nav-links a" \in P) => (".nav-links" \in P)
    /\ (".theme-toggle i" \in P) => (".theme-toggle" \in P)

----------------------------------------------------------------------------
(* DOMSelectors *)

\* getElement(selector): the element, or throws when nothing matches.
getElementThrows(selector, P) == selector \notin P

\* getElements(selector): the matches, or throws when there are none.
getElementsThrows(selector, P) == selector \notin P

\* The messages of the errors DOMSelectors throws.
getElementMessage(selector) == "Element with selector " \o selector \o " not found"

getElementsMessage(selector) == "No elements found with selector " \o selector

\* A document is the sequence of its elements in document order, each given by the
\* selector it matches; an element is named by its position.
\* document.querySelectorAll(selector): the matching elements in document order.
querySelectorAll(doc, selector) ==
    SelectSeq([i \in 1..Len(doc) |-> i], LAMBDA i : doc[i] = selector)

\* document.querySelector(selector): the first match, or null.
querySelector(doc, selector) ==
    LET all == querySelectorAll(doc, selector)
    IN IF all = <<>> THEN <<>> ELSE <<all[1]>>

Returned(value) == [threw |-> FALSE, message |-> "", value |-> value]

Thrown(message) == [threw |-> TRUE, message |-> message, value |-> <<>>]

\* getElement(selector) on a document.
getElement(doc, selector) ==
    LET element == querySelector(doc, selector)
    IN IF element = <<>> THEN Thrown(getElementMessage(selector)) ELSE Returned(element)

\* getElements(selector) on a document.
getElementsUnchecked(doc, selector) == Returned(querySelectorAll(doc, selector))

getElements(doc, selector) ==
    LET elements == querySelectorAll(doc, selector)
    IN IF Len(elements) = 0 THEN Thrown(getElementsMessage(selector))
       ELSE Returned(elements)

NoLookup ==
    [doc |-> <<>>, selector |-> "", done |-> FALSE, one |-> Returned(<<>>),
     all |-> Returned(<<>>)]

----------------------------------------------------------------------------
(* ThemeManager *)

Null == <<>>

Some(v) == <<v>>

StartupStored == {Null, Some("light"), Some("dark"), Some("blue"), Some("")}

\* localStorage.getItem(key) || 'light'   (null and "" are falsy)
InitialThemeIgnoresStorage(stored) == "light"

InitialTheme(stored) ==
    IF stored = Null \/ stored = Some("") THEN "light" ELSE stored[1]

\* localStorage.getItem('theme') === 'dark'
InitialIsDark(stored) == stored = Some("dark")

\* this.currentTheme === 'light' ? 'dark' : 'light'
NextTheme(theme) == IF theme = "light" THEN "dark" ELSE "light"

\* setTheme(theme): the class the body ends with, and the value stored.
ThemeClassNeverDark(theme) == FALSE

ThemeClass(theme) == theme = "dark"

ThemeStoredConstant(theme) == Some("light")

ThemeStored(theme) == Some(theme)

\* setTheme(isDark) of the isDark build.
IsDarkClass(d) == d

IsDarkStored(d) == Some(IF d THEN "dark" ELSE "light")

\* classList.replace(old, new): swaps the token when it is there, else changes nothing.
replace(cls, old, new) == IF cls = old THEN new ELSE cls

\* icon?.classList.replace(...): the optional chaining skips the call when
\* querySelector('i') gave null, so the icon swap never throws.
IconAccessThrowsUnchained(P) == ".theme-toggle" \in P /\ ".theme-toggle i" \notin P

IconAccessThrows(P) == FALSE

\* The glyph class after setTheme: fa-moon -> fa-sun for dark, fa-sun -> fa-moon for
\* anything else.
IconAfter(cls, dark, P) ==
    IF ".theme-toggle i" \notin P THEN cls
    ELSE IF dark THEN replace(cls, "fa-moon", "fa-sun")
    ELSE replace(cls, "fa-sun", "fa-moon")

\* Whether the theme the constructor applies is the dark one.
InitialDark(v, stored) ==
    IF v = "scroll" THEN InitialIsDark(stored) ELSE InitialTheme(stored) = "dark"

\* The constructor of the currentTheme builds: `this.themeToggle.querySelector('i')`,
\* the first statement of setTheme, throws when .theme-toggle is missing, before the
\* class or the storage is touched.
ThemeCtorClass(v, stored, P, dc) ==
    IF v = "scroll" THEN IsDarkClass(InitialIsDark(stored))
    ELSE IF ".theme-toggle" \in P THEN ThemeClass(InitialTheme(stored)) ELSE dc

\* In the isDark build setTheme changes the class first and throws on the icon lookup
\* after it, so the storage is written only when .theme-toggle exists.
ThemeCtorStored(v, stored, P) ==
    IF ".theme-toggle" \notin P \/ IconAccessThrows(P) THEN stored
    ELSE IF v = "scroll" THEN IsDarkStored(InitialIsDark(stored))
    ELSE ThemeStored(InitialTheme(stored))

----------------------------------------------------------------------------
(* FormManager *)

Whitespace == {" "}

RECURSIVE trimStart(_)
trimStart(s) ==
    IF s # <<>> /\ Head(s) \in Whitespace THEN trimStart(Tail(s)) ELSE s

RECURSIVE trimEnd(_)
trimEnd(s) ==
    IF s # <<>> /\ s[Len(s)] \in Whitespace THEN trimEnd(SubSeq(s, 1, Len(s) - 1)) ELSE s

\* String.prototype.trim
trim(s) == trimEnd(trimStart(s))

\* [^\s@]+ : a non-empty run without whitespace and without "@"
Plain(s, from, to) ==
    /\ from <= to
    /\ \A k \in from..to : s[k] \notin Whitespace \cup {"@"}

\* /^[^\s@]+@[^\s@]+\.[^\s@]+$/.test(s)
emailRegexTestStar(s) ==
    \E i, j \in 1..Len(s) :
        /\ i < j
        /\ s[i] = "@"
        /\ s[j] = "."
        /\ \A k \in (1..Len(s)) \ {i, j} : s[k] \notin Whitespace \cup {"@"}

emailRegexTest(s) ==
    \E i, j \in 1..Len(s) :
        /\ i < j
        /\ s[i] = "@"
        /\ s[j] = "."
        /\ Plain(s, 1, i - 1)
        /\ Plain(s, i + 1, j - 1)
        /\ Plain(s, j + 1, Len(s))

EmptyForm == [name |-> <<>>, email |-> <<>>, message |-> <<>>]

\* What the user can type into each control.
Inputs(f) ==
    CASE f = "name" -> {<<" ">>, <<"J", "o">>}
      [] f = "email" -> {<<"n", "o">>, <<"a", "@", "b", ".", "c">>,
                         <<" ", "a", "@", "b", ".", "c">>}
      [] f = "message" -> {<<" ">>, <<"h", "i">>}

getFormData(f) ==
    [name |-> trim(f.name), email |-> trim(f.email), message |-> trim(f.message)]

NoError == ""

\* validateForm(data): the message of the first check that fails, NoError when all pass.
ValidationErrorNoMessageCheck(data) ==
    IF data.name = <<>> THEN "Please enter your name"
    ELSE IF ~emailRegexTest(data.email) THEN "Please enter a valid email"
    ELSE NoError

ValidationError(data) ==
    IF data.name = <<>> THEN "Please enter your name"
    ELSE IF ~emailRegexTest(data.email) THEN "Please enter a valid email"
    ELSE IF data.message = <<>> THEN "Please enter a message"
    ELSE NoError

validateForm(data) == ValidationError(data) = NoError

showError(message) == "Error: " \o message

SuccessMessage == "Message sent successfully!"

ThankYouMessage == "Thank you for your message! I will get back to you soon."

\* HTMLFormElement.reset(): the controls go back to their default values, which the
\* page's markup leaves empty.
reset(f) == EmptyForm

NoData == [name |-> <<>>, email |-> <<>>, message |-> <<>>]

ConsoleLine(text, data) == [text |-> text, data |-> data]

----------------------------------------------------------------------------
(* ProjectManager *)

ImageUrl == "https://via.placeholder.com/300x200"

ProjectRecords ==
    <<[id |-> 1, title |-> "Goal 1", description |-> "Making this website",
       imageUrl |-> ImageUrl],
      [id |-> 2, title |-> "Goal 2", description |-> "Learning TypeScript",
       imageUrl |-> ImageUrl],
      [id |-> 3, title |-> "Goal 3", description |-> "Building a portfolio",
       imageUrl |-> ImageUrl]>>

\* The list each build constructs its ProjectManager with.
ProjectsOf(v) == IF v = "ts" THEN SubSeq(ProjectRecords, 1, 1) ELSE ProjectRecords

\* The markup of one card: one div.project-card element.
createProjectCard(project) ==
    <<[class |-> "project-card", dataProjectId |-> project.id, img |-> project.imageUrl,
       alt |-> project.title, h3 |-> project.title, p |-> project.description]>>

\* Array.prototype.join('') over the cards' markup.
RECURSIVE join(_)
join(parts) == IF parts = <<>> THEN <<>> ELSE Head(parts) \o join(Tail(parts))

\* renderProjects(): the value assigned to projectContainer.innerHTML.
renderProjectsAppend(ps, old) ==
    old \o join([i \in 1..Len(ps) |-> createProjectCard(ps[i])])

renderProjects(ps, old) == join([i \in 1..Len(ps) |-> createProjectCard(ps[i])])

\* What the static markup may hold in .project-grid before the script runs.
PriorContents ==
    {<<>>,
     <<[class |-> "project-card", dataProjectId |-> 0, img |-> ImageUrl,
        alt |-> "Placeholder", h3 |-> "Placeholder", p |-> "Placeholder"]>>}

----------------------------------------------------------------------------
(* App *)

\* Whether `new m()` throws on a page holding the elements P.
CtorThrows(m, P) ==
    CASE m = "ThemeManager" -> ".theme-toggle" \notin P \/ IconAccessThrows(P)
      [] m = "NavigationManager" ->
            \/ getElementThrows(".hamburger", P)
            \/ getElementThrows(".nav-links", P)
            \/ getElementsThrows(".nav-links a", P)
      [] m = "FormManager" -> "#contact-form" \notin P
      [] m = "ProjectManager" -> ".project-grid" \notin P
      [] m = "SmoothScrollManager" -> getElementsThrows("a[href^=#]", P)

\* The listeners `new m()` has attached by the time it returns or throws.
CtorListenersBoundBeforeLookup(m, P) ==
    IF m = "NavigationManager" /\ ~getElementThrows(".hamburger", P)
    THEN {"click:.hamburger"} ELSE {}

CtorListenersOnlyOnSuccess(m, P) ==
    IF CtorThrows(m, P) THEN {}
    ELSE CASE m = "ThemeManager" -> {"click:.theme-toggle"}
           [] m = "NavigationManager" -> {"click:.hamburger", "click:.nav-links a"}
           [] m = "FormManager" -> {"submit"}
           [] m = "ProjectManager" -> {}
           [] m = "SmoothScrollManager" -> {"click:a[href^=#]"}

CtorListeners(m, P) ==
    CASE m = "ThemeManager" ->
            IF ".theme-toggle" \in P /\ ~IconAccessThrows(P)
            THEN {"click:.theme-toggle"} ELSE {}
      [] m = "NavigationManager" ->
            IF getElementThrows(".hamburger", P) \/ getElementThrows(".nav-links", P)
            THEN {}
            ELSE {"click:.hamburger"} \cup
                 (IF getElementsThrows(".nav-links a", P) THEN {}
                  ELSE {"click:.nav-links a"})
      [] m = "FormManager" -> IF "#contact-form" \in P THEN {"submit"} ELSE {}
      [] m = "ProjectManager" -> {}
      [] m = "SmoothScrollManager" ->
            IF getElementsThrows("a[href^=#]", P) THEN {} ELSE {"click:a[href^=#]"}

\* A property access or call on null.
TypeError == "TypeError"

\* The message of the error `new m()` throws in build v on a page holding P.
CtorError(m, v, P) ==
    CASE m = "ThemeManager" -> TypeError
      [] m = "NavigationManager" ->
            IF getElementThrows(".hamburger", P) THEN getElementMessage(".hamburger")
            ELSE IF getElementThrows(".nav-links", P) THEN getElementMessage(".nav-links")
            ELSE getElementsMessage(".nav-links a")
      [] m = "FormManager" -> IF v = "scroll" THEN TypeError ELSE "Contact form not found"
      [] m = "ProjectManager" -> "Project container not found"
      [] m = "SmoothScrollManager" -> getElementsMessage("a[href^=#]")

\* Index in `order` of the first constructor that throws, Len(order) + 1 when none does.
FirstFailure(order, P) ==
    LET bad == {i \in 1..Len(order) : CtorThrows(order[i], P)}
    IN IF bad = {} THEN Len(order) + 1
       ELSE CHOOSE i \in bad : \A k \in bad : i <= k

\* The constructors the App invokes: it stops at the first one that throws.
AttemptedPastFailure(order, P) == order

Attempted(order, P) ==
    LET k == FirstFailure(order, P)
    IN SubSeq(order, 1, IF k > Len(order) THEN Len(order) ELSE k)

Constructed(order, P) == SubSeq(order, 1, FirstFailure(order, P) - 1)

Range(s) == {s[i] : i \in 1..Len(s)}


----------------------------------------------------------------------------
(* Initial state: the page as the browser has parsed it, before the script's *)
(* DOMContentLoaded listener runs.                                          *)

Unset == "undefined"

\* No second tab.
NoTab == [pc |-> "closed", currentTheme |-> Unset, isDark |-> FALSE, darkClass |-> FALSE]

\* A handler that neither threw, nor called preventDefault, nor scrolled.
NoOutcome == [threw |-> FALSE, prevented |-> FALSE, scrolledTo |-> <<>>, href |-> ""]

Init ==
    /\ variant \in Variants
    /\ present \in {P \in SUBSET Lookups(variant) : WellFormed(P)}
    /\ initialStored \in StartupStored
    /\ storage = initialStored
    /\ currentTheme = Unset
    /\ isDark = FALSE
    /\ darkClass = FALSE
    /\ listeners = {}
    /\ menuActive = FALSE
    /\ hamSinceLink = 0
    /\ fields = EmptyForm
    /\ pending = <<>>
    /\ alerts = <<>>
    /\ console = <<>>
    /\ ev = "none"
    /\ pc = "loading"
    /\ uncaught = FALSE
    /\ attempted = <<>>
    /\ constructed = <<>>
    /\ projects = ProjectsOf(variant)
    /\ container \in (IF ".project-grid" \in present THEN PriorContents ELSE {<<>>})
    /\ beforeClicks = <<>>
    /\ iconClass = (IF ".theme-toggle i" \in present THEN "fa-moon" ELSE "none")
    /\ outcome = NoOutcome
    /\ initError = <<>>
    /\ trace = <<>>
    /\ fired = 0
    /\ lookup = NoLookup
    /\ other = NoTab

----------------------------------------------------------------------------
(* Handlers *)

\* What the App writes to the console while constructing its managers.
AppConsole(v, failed) ==
    IF v \in TryCatchVariants
    THEN <<ConsoleLine("App initializing...", NoData),
           ConsoleLine(IF failed THEN "Failed to initialize app:"
                       ELSE "App initialized successfully", NoData)>>
    ELSE <<>>

\* Whether the exception of a failing constructor leaves the DOMContentLoaded listener.
Escapes(v, failed) == failed /\ v \notin TryCatchVariants

\* document.addEventListener('DOMContentLoaded', () => { new App(); })
DOMContentLoaded ==
    /\ pc = "loading"
    /\ LET order == AppOrder(variant)
           att == Attempted(order, present)
           con == Constructed(order, present)
           failed == Len(con) < Len(order)
       IN /\ attempted' = att
          /\ constructed' = con
          /\ currentTheme' = IF variant = "scroll" THEN Unset ELSE InitialTheme(storage)
          /\ isDark' = IF variant = "scroll" THEN InitialIsDark(storage) ELSE FALSE
          /\ darkClass' = ThemeCtorClass(variant, storage, present, darkClass)
          /\ storage' = ThemeCtorStored(variant, storage, present)
          /\ listeners' = UNION {CtorListeners(att[i], present) : i \in 1..Len(att)}
          /\ container' = IF "ProjectManager" \in Range(con)
                          THEN renderProjects(projects, container) ELSE container
          /\ uncaught' = Escapes(variant, failed)
          /\ console' = AppConsole(variant, failed)
          /\ initError' = IF failed THEN <<CtorError(att[Len(att)], variant, present)>>
                          ELSE <<>>
          /\ outcome' = [NoOutcome EXCEPT !.threw = Escapes(variant, failed)]
    /\ iconClass' = IF ".theme-toggle" \in present
                    THEN IconAfter(iconClass, InitialDark(variant, storage), present)
                    ELSE iconClass
    /\ pc' = "ready"
    /\ ev' = "DOMContentLoaded"
    /\ alerts' = <<>>
    /\ beforeClicks' = <<>>
    /\ trace' = <<>>
    /\ UNCHANGED <<lookup, other>>
    /\ UNCHANGED <<variant, present, initialStored, menuActive, hamSinceLink, fields,
                   pending, projects, fired>>

\* The snapshots kept of the states before the latest consecutive toggle clicks.
Remember(trail, snap) ==
    IF Len(trail) < 2 THEN Append(trail, snap) ELSE <<trail[2], snap>>

\* What the click handler of the toggle leaves alone: it touches this.currentTheme (or
\* this.isDark), body.classList, the icon's classList and localStorage only.
ThemeToggleFrameMenuClosed ==
    /\ menuActive' = FALSE
    /\ UNCHANGED <<variant, present, initialStored, listeners, hamSinceLink,
                   fields, pending, pc, uncaught, attempted, constructed, projects,
                   container, initError, fired>>

ThemeToggleFrame ==
    UNCHANGED <<variant, present, initialStored, listeners, menuActive, hamSinceLink,
                fields, pending, pc, uncaught, attempted, constructed, projects,
                container, initError, fired>>

\* The value handleThemeToggle flips: this.currentTheme, not what localStorage holds.
ToggleSourceStored(memory, stored) == IF stored = Null THEN "light" ELSE stored[1]

ToggleSource(memory, stored) == memory

\* click on .theme-toggle: handleThemeToggle (currentTheme builds), the arrow function
\* of initialize (isDark build).
ThemeToggleClick ==
    /\ pc = "ready"
    /\ "click:.theme-toggle" \in listeners
    /\ IF variant = "scroll"
       THEN /\ isDark' = ~isDark
            /\ darkClass' = IsDarkClass(isDark')
            /\ storage' = IF IconAccessThrows(present) THEN storage
                          ELSE IsDarkStored(isDark')
            /\ UNCHANGED currentTheme
       ELSE /\ currentTheme' = NextTheme(ToggleSource(currentTheme, storage))
            /\ darkClass' = ThemeClass(currentTheme')
            /\ storage' = IF IconAccessThrows(present) THEN storage
                          ELSE ThemeStored(currentTheme')
            /\ UNCHANGED isDark
    /\ iconClass' = IconAfter(iconClass, darkClass', present)
    /\ outcome' = [NoOutcome EXCEPT !.threw = IconAccessThrows(present)]
    /\ beforeClicks' = Remember(beforeClicks, [darkClass |-> darkClass, storage |-> storage])
    /\ ev' = "themeClick"
    /\ alerts' = <<>>
    /\ console' = <<>>
    /\ trace' = <<>>
    /\ UNCHANGED <<lookup, other>>
    /\ ThemeToggleFrame

\* classList.toggle('active')
toggleActiveAdds(active) == TRUE

toggleActive(active) == ~active

\* click on .hamburger
HamburgerClick ==
    /\ pc = "ready"
    /\ "click:.hamburger" \in listeners
    /\ hamSinceLink < MaxClicks
    /\ menuActive' = toggleActive(menuActive)
    /\ hamSinceLink' = hamSinceLink + 1
    /\ ev' = "hamburgerClick"
    /\ alerts' = <<>>
    /\ console' = <<>>
    /\ beforeClicks' = <<>>
    /\ outcome' = NoOutcome
    /\ trace' = <<>>
    /\ UNCHANGED <<lookup, other>>
    /\ UNCHANGED <<variant, present, initialStored, storage, currentTheme, isDark,
                   darkClass, listeners, fields, pending, pc, uncaught, attempted,
                   constructed, projects, container, iconClass, initError, fired>>

\* click on an anchor inside .nav-links: classList.remove('active')
NavLinkClick ==
    /\ pc = "ready"
    /\ "click:.nav-links a" \in listeners
    /\ menuActive' = FALSE
    /\ hamSinceLink' = 0
    /\ ev' = "navLinkClick"
    /\ alerts' = <<>>
    /\ console' = <<>>
    /\ beforeClicks' = <<>>
    /\ outcome' = NoOutcome
    /\ trace' = <<>>
    /\ UNCHANGED <<lookup, other>>
    /\ UNCHANGED <<variant, present, initialStored, storage, currentTheme, isDark,
                   darkClass, listeners, fields, pending, pc, uncaught, attempted,
                   constructed, projects, container, iconClass, initError, fired>>

\* The user types v into the control f of the contact form.
Input(f, v) ==
    /\ pc = "ready"
    /\ "#contact-form" \in present
    /\ fields' = [fields EXCEPT ![f] = v]
    /\ ev' = "input"
    /\ alerts' = <<>>
    /\ console' = <<>>
    /\ beforeClicks' = <<>>
    /\ outcome' = NoOutcome
    /\ trace' = <<>>
    /\ UNCHANGED <<lookup, other>>
    /\ UNCHANGED <<variant, present, initialStored, storage, currentTheme, isDark,
                   darkClass, listeners, menuActive, hamSinceLink, pending, pc, uncaught,
                   attempted, constructed, projects, container, iconClass, initError,
                   fired>>

\* What handleSubmit shows before it returns or suspends at the await.
SubmitAlertsNoAwait(data) ==
    IF validateForm(data) THEN <<SuccessMessage>>
    ELSE <<showError(ValidationError(data))>>

SubmitAlertsSilent(data) == <<>>

SubmitAlerts(data) ==
    IF validateForm(data) THEN <<>> ELSE <<showError(ValidationError(data))>>

\* The timers in flight after handleSubmit: submitForm sets one when the data are valid,
\* whatever is already in flight.
SubmitPendingOneAtATime(p, data) ==
    IF validateForm(data) /\ p = <<>> THEN Append(p, data) ELSE p

SubmitPending(p, data) == IF validateForm(data) THEN Append(p, data) ELSE p

\* The controls after handleSubmit returns or suspends: it does not touch them.
SubmitFieldsResetOnError(f, data) == IF validateForm(data) THEN f ELSE reset(f)

SubmitFields(f, data) == f

\* The phases of the attempt within the submit handler: validateForm is called (line
\* 137); the handler returns on a failure, or goes on to await submitForm (line 139).
SubmitTrace(p, q) ==
    <<"Idle", "Validating">> \o (IF q # p THEN <<"Submitting">> ELSE <<"Idle">>)

\* e.preventDefault() is the first statement of both submit handlers.
SubmitOutcome == [NoOutcome EXCEPT !.prevented = TRUE]

\* submit event, validating FormManager (ts, dist): handleSubmit up to the await.
\* With valid data submitForm starts its 1000 ms timer and the handler suspends.
handleSubmit ==
    /\ pc = "ready"
    /\ "submit" \in listeners
    /\ variant \in {"ts", "dist"}
    /\ LET formData == getFormData(fields)
       IN /\ validateForm(formData) => Len(pending) < MaxPending
          /\ alerts' = SubmitAlerts(formData)
          /\ pending' = SubmitPending(pending, formData)
          /\ fields' = SubmitFields(fields, formData)
    /\ trace' = SubmitTrace(pending, pending')
    /\ outcome' = SubmitOutcome
    /\ ev' = "submit"
    /\ console' = <<>>
    /\ beforeClicks' = <<>>
    /\ UNCHANGED <<lookup, other>>
    /\ UNCHANGED <<variant, present, initialStored, storage, currentTheme, isDark,
                   darkClass, listeners, menuActive, hamSinceLink, pc, uncaught,
                   attempted, constructed, projects, container, iconClass, initError,
                   fired>>

\* The record submitForm logs when its timer fires: its parameter `data`, bound when
\* handleSubmit called it, whatever the controls hold by then.
submitFormDataReadAtCompletion(p, f) == getFormData(f)

submitFormData(p, f) == Head(p)

\* The oldest timer fires (equal delays fire in the order they were set): submitForm
\* logs the record, then handleSubmit resumes with showSuccess and form.reset().
submitFormResolves ==
    /\ pc = "ready"
    /\ pending # <<>>
    /\ console' = <<ConsoleLine("Form submitted:", submitFormData(pending, fields))>>
    /\ alerts' = <<SuccessMessage>>
    /\ fields' = reset(fields)
    /\ pending' = Tail(pending)
    /\ trace' = <<"Submitting", "Success", "Idle">>
    /\ fired' = (fired + 1) % (MaxPending + 1)
    /\ outcome' = NoOutcome
    /\ ev' = "timer"
    /\ beforeClicks' = <<>>
    /\ UNCHANGED <<lookup, other>>
    /\ UNCHANGED <<variant, present, initialStored, storage, currentTheme, isDark,
                   darkClass, listeners, menuActive, hamSinceLink, pc, uncaught,
                   attempted, constructed, projects, container, iconClass, initError>>

\* submit event, plain FormManager (scroll): alert and reset, no validation.
handleSubmitPlain ==
    /\ pc = "ready"
    /\ "submit" \in listeners
    /\ variant = "scroll"
    /\ alerts' = <<ThankYouMessage>>
    /\ fields' = reset(fields)
    /\ ev' = "submit"
    /\ console' = <<>>
    /\ beforeClicks' = <<>>
    /\ outcome' = SubmitOutcome
    /\ trace' = <<>>
    /\ UNCHANGED <<lookup, other>>
    /\ UNCHANGED <<variant, present, initialStored, storage, currentTheme, isDark,
                   darkClass, listeners, menuActive, hamSinceLink, pending, pc, uncaught,
                   attempted, constructed, projects, container, iconClass, initError,
                   fired>>

\* The href attributes of the page's in-page anchors (those a[href^="#"] matches).
Hrefs == {"#", "#home", "#missing"}

\* The id selectors that match an element of the page.
DocumentIds == {"#home"}

\* document.querySelector(selector) throws a SyntaxError on a string that is no
\* selector; "#" without an identifier is none.
ValidSelector(selector) == selector # "#"

\* handleClick(e, anchor): preventDefault, then getAttribute('href'), querySelector and,
\* when an element is found, scrollIntoView.
handleClick(href) ==
    [prevented |-> TRUE,
     href |-> href,
     threw |-> href # "" /\ ~ValidSelector(href),
     scrolledTo |-> IF href # "" /\ ValidSelector(href) /\ href \in DocumentIds
                    THEN <<href>> ELSE <<>>]

\* click on an in-page anchor (scroll build).
AnchorClick(href) ==
    /\ pc = "ready"
    /\ "click:a[href^=#]" \in listeners
    /\ outcome' = handleClick(href)
    /\ ev' = "anchorClick"
    /\ alerts' = <<>>
    /\ console' = <<>>
    /\ beforeClicks' = <<>>
    /\ trace' = <<>>
    /\ UNCHANGED <<lookup, other>>
    /\ UNCHANGED <<variant, present, initialStored, storage, currentTheme, isDark,
                   darkClass, listeners, menuActive, hamSinceLink, fields, pending, pc,
                   uncaught, attempted, constructed, projects, container, iconClass,
                   initError, fired>>

Next ==
    \/ DOMContentLoaded
    \/ ThemeToggleClick
    \/ HamburgerClick
    \/ NavLinkClick
    \/ \E f \in {"name", "email", "message"} : \E v \in Inputs(f) : Input(f, v)
    \/ handleSubmit
    \/ submitFormResolves
    \/ handleSubmitPlain
    \/ \E href \in Hrefs : AnchorClick(href)

Spec == Init /\ [][Next]_vars

----------------------------------------------------------------------------
(* The theme the manager holds in memory, whichever field the build keeps it in. *)

InMemoryTheme ==
    IF variant = "scroll" THEN (IF isDark THEN "dark" ELSE "light") ELSE currentTheme

ThemeReady == pc = "ready" /\ "ThemeManager" \in Range(constructed)


----------------------------------------------------------------------------
(* renderProjects as a function of the list it is given: the list and the     *)
(* container's earlier content are drawn from bounded sets and the render is  *)
(* applied once.                                                              *)

ProjectLists ==
    UNION {[1..n -> Range(ProjectRecords)] : n \in 0..MaxProjects}

InitRender ==
    /\ variant = "gallery"
    /\ present = {".theme-toggle", ".theme-toggle i", ".project-grid"}
    /\ initialStored = Null
    /\ storage = Null
    /\ currentTheme = Unset
    /\ isDark = FALSE
    /\ darkClass = FALSE
    /\ listeners = {}
    /\ menuActive = FALSE
    /\ hamSinceLink = 0
    /\ fields = EmptyForm
    /\ pending = <<>>
    /\ alerts = <<>>
    /\ console = <<>>
    /\ ev = "none"
    /\ pc = "render"
    /\ uncaught = FALSE
    /\ attempted = <<>>
    /\ constructed = <<>>
    /\ projects \in ProjectLists
    /\ container \in PriorContents
    /\ beforeClicks = <<>>
    /\ iconClass = "none"
    /\ outcome = NoOutcome
    /\ initError = <<>>
    /\ trace = <<>>
    /\ fired = 0
    /\ lookup = NoLookup
    /\ other = NoTab

Render ==
    /\ pc = "render"
    /\ ev = "none"
    /\ container' = renderProjects(projects, container)
    /\ ev' = "render"
    /\ UNCHANGED <<lookup, other>>
    /\ UNCHANGED <<variant, present, initialStored, storage, currentTheme, isDark,
                   darkClass, listeners, menuActive, hamSinceLink, fields, pending,
                   alerts, console, pc, uncaught, attempted, constructed, projects,
                   beforeClicks, iconClass, outcome, initError, trace, fired>>

NextRender == Render

SpecRender == InitRender /\ [][NextRender]_vars

----------------------------------------------------------------------------
(* Claims *)

\* C1: every submit event whose trimmed fields fail validation shows exactly one
\* error alert, the one of the first failing check in the order name, email, message,
\* and starts no submission: no timer is set, nothing is logged, no success is shown.
C1_ValidationAborts ==
    [][ev' = "submit" =>
        LET d == getFormData(fields)
            expected ==
                IF d.name = <<>> THEN "Error: Please enter your name"
                ELSE IF ~emailRegexTest(d.email) THEN "Error: Please enter a valid email"
                ELSE "Error: Please enter a message"
        IN (d.name = <<>> \/ ~emailRegexTest(d.email) \/ d.message = <<>>) =>
              /\ alerts' = <<expected>>
              /\ pending' = pending
              /\ console' = <<>>]_vars

\* C2: a submit whose trimmed fields pass validation shows nothing and sets the timer;
\* the success alert appears only in the step in which a timer set earlier fires, that
\* step logs the record of the submission it completes, and after it the three
\* controls are empty.
C2_SuccessOnlyAfterDelay ==
    [][/\ (ev' = "submit" /\ variant \in {"ts", "dist"}
           /\ validateForm(getFormData(fields))) =>
              /\ alerts' = <<>>
              /\ pending' = Append(pending, getFormData(fields))
       /\ (SuccessMessage \in Range(alerts')) =>
              /\ pending # <<>>
              /\ pending' = Tail(pending)
              /\ console' = <<ConsoleLine("Form submitted:", Head(pending))>>
              /\ alerts' = <<SuccessMessage>>
              /\ fields' = EmptyForm]_vars

C2_Witness ==
    /\ ev = "timer"
    /\ alerts = <<SuccessMessage>>
    /\ console = <<ConsoleLine("Form submitted:",
                               [name |-> <<"J", "o">>, email |-> <<"a", "@", "b", ".", "c">>,
                                message |-> <<"h", "i">>])>>
    /\ fields = EmptyForm

\* C4: two consecutive clicks on the theme toggle leave the dark class and the stored
\* value as they were before the two clicks.
C4_ToggleTwiceRoundTrip ==
    (ThemeReady /\ Len(beforeClicks) = 2) =>
        beforeClicks[1] = [darkClass |-> darkClass, storage |-> storage]

\* C5: when the storage holds a string other than "dark" at startup, the theme in
\* memory right after initialisation is light and the dark class is absent.
C5_OtherStringsStartLight ==
    (ThemeReady /\ ev = "DOMContentLoaded" /\ initialStored \notin {Null, Some("dark")}) =>
        (InMemoryTheme = "light" /\ ~darkClass)

\* C6: with nothing stored at startup the theme right after initialisation is light
\* and the dark class absent; with "dark" stored it is dark and the class present.
C6_InitialTheme ==
    (ThemeReady /\ ev = "DOMContentLoaded") =>
        /\ (initialStored = Null) => (InMemoryTheme = "light" /\ ~darkClass)
        /\ (initialStored = Some("dark")) => (InMemoryTheme = "dark" /\ darkClass)

C6_Witness ==
    /\ ThemeReady
    /\ ev = "DOMContentLoaded"
    /\ initialStored = Some("dark")
    /\ InMemoryTheme = "dark"
    /\ darkClass

\* C7: once the theme manager is initialised, and after any toggle clicks, the value
\* stored under the theme key is "light" or "dark".
C7_StoredIsLightOrDark ==
    ThemeReady => storage \in {Some("light"), Some("dark")}

\* C8: while the navigation listeners are attached the menu is open exactly when the
\* number of hamburger clicks since the last nav link click (or since startup) is odd;
\* in particular it is closed right after every link click.
C8_MenuParity ==
    ("click:.hamburger" \in listeners) =>
        /\ menuActive <=> (hamSinceLink % 2 = 1)
        /\ (ev = "navLinkClick") => ~menuActive

C8_Witness ==
    /\ "click:.nav-links a" \in listeners
    /\ menuActive
    /\ hamSinceLink = 3

\* C9: when a manager's construction fails the error is caught and logged by the
\* App and does not leave the page-ready handler, and the App invoked the constructors
\* up to the failing one, each once, and none after it.
C9_InitFailureContained ==
    (pc = "ready" /\ Len(constructed) < Len(AppOrder(variant))) =>
        /\ ~uncaught
        /\ (ev = "DOMContentLoaded") =>
              ConsoleLine("Failed to initialize app:", NoData) \in Range(console)
        /\ attempted = SubSeq(AppOrder(variant), 1, Len(constructed) + 1)

\* C10: after a render the container holds exactly one card per record, the i-th
\* card carrying the id of the i-th record, whatever the container held before.
C10_RenderExact ==
    (ev = "render") =>
        /\ Len(container) = Len(projects)
        /\ \A i \in 1..Len(projects) :
              /\ container[i].class = "project-card"
              /\ container[i].dataProjectId = projects[i].id

C10_Witness ==
    /\ ev = "render"
    /\ Len(projects) = 3
    /\ projects[1].id = 2
    /\ projects[3].id = 1
    /\ Len(container) = 3


\* C11: every click on an in-page anchor suppresses the default jump; when the
\* anchor's fragment matches no element the handler raises no error and does not
\* scroll; it scrolls only when the fragment resolves to an element.
C11_NoTargetNoErrorNoScroll ==
    (ev = "anchorClick") =>
        /\ outcome.prevented
        /\ (outcome.href \notin DocumentIds) =>
              (~outcome.threw /\ outcome.scrolledTo = <<>>)
        /\ (outcome.scrolledTo # <<>>) => (outcome.href \in DocumentIds)


----------------------------------------------------------------------------
(* DOMSelectors as functions of the document: the document and the selector  *)
(* are drawn from bounded sets and both lookups are applied once.            *)

Selectors == {".hamburger", ".nav-links a"}

ElementKinds == Selectors \cup {"div"}

Documents == UNION {[1..n -> ElementKinds] : n \in 0..MaxElements}

InitLocator ==
    /\ variant = "scroll"
    /\ present = {}
    /\ initialStored = Null
    /\ storage = Null
    /\ currentTheme = Unset
    /\ isDark = FALSE
    /\ darkClass = FALSE
    /\ listeners = {}
    /\ menuActive = FALSE
    /\ hamSinceLink = 0
    /\ fields = EmptyForm
    /\ pending = <<>>
    /\ alerts = <<>>
    /\ console = <<>>
    /\ ev = "none"
    /\ pc = "lookup"
    /\ uncaught = FALSE
    /\ attempted = <<>>
    /\ constructed = <<>>
    /\ projects = <<>>
    /\ container = <<>>
    /\ beforeClicks = <<>>
    /\ iconClass = "none"
    /\ outcome = NoOutcome
    /\ initError = <<>>
    /\ trace = <<>>
    /\ fired = 0
    /\ \E doc \in Documents, selector \in Selectors :
          lookup = [NoLookup EXCEPT !.doc = doc, !.selector = selector]
    /\ other = NoTab

Lookup ==
    /\ pc = "lookup"
    /\ ~lookup.done
    /\ lookup' = [lookup EXCEPT !.done = TRUE,
                                !.one = getElement(lookup.doc, lookup.selector),
                                !.all = getElements(lookup.doc, lookup.selector)]
    /\ UNCHANGED other
    /\ UNCHANGED <<variant, present, initialStored, storage, currentTheme, isDark,
                   darkClass, listeners, menuActive, hamSinceLink, fields, pending,
                   alerts, console, ev, pc, uncaught, attempted, constructed, projects,
                   container, beforeClicks, iconClass, outcome, initError, trace, fired>>

NextLocator == Lookup

SpecLocator == InitLocator /\ [][NextLocator]_vars

\* C12: getElement returns the first element the selector matches when there is one
\* and otherwise throws an error whose message carries the selector; getElements returns
\* all the matches in document order when there is one and otherwise throws; neither
\* ever returns an absent or empty result.
C12_LocatorNeverEmpty ==
    lookup.done =>
        LET doc == lookup.doc
            sel == lookup.selector
            hits == {i \in 1..Len(doc) : doc[i] = sel}
        IN /\ (hits # {}) =>
                 /\ ~lookup.one.threw
                 /\ \E i \in hits : /\ lookup.one.value = <<i>>
                                    /\ \A k \in hits : i <= k
                 /\ ~lookup.all.threw
                 /\ Len(lookup.all.value) = Cardinality(hits)
                 /\ {lookup.all.value[k] : k \in 1..Len(lookup.all.value)} = hits
                 /\ \A k \in 1..(Len(lookup.all.value) - 1) :
                       lookup.all.value[k] < lookup.all.value[k + 1]
           /\ (hits = {}) =>
                 /\ lookup.one.threw
                 /\ lookup.one.message = "Element with selector " \o sel \o " not found"
                 /\ lookup.all.threw
           /\ ~lookup.one.threw => lookup.one.value # <<>>
           /\ ~lookup.all.threw => lookup.all.value # <<>>

C12_Witness ==
    /\ lookup.done
    /\ lookup.doc = <<"div", ".nav-links a", ".nav-links a">>
    /\ lookup.selector = ".nav-links a"
    /\ lookup.one.value = <<2>>
    /\ lookup.all.value = <<2, 3>>


----------------------------------------------------------------------------
(* NavigationManager *)

\* C13: when the App constructs the NavigationManager on a page without the hamburger
\* control or without the link container, the constructor throws the getElement error
\* naming the first missing selector, the manager is not constructed, and neither the
\* hamburger listener nor a nav-link listener has been attached.
C13_NavCtorFailsUnbound ==
    (/\ pc = "ready"
     /\ "NavigationManager" \in Range(attempted)
     /\ (".hamburger" \notin present \/ ".nav-links" \notin present)) =>
        /\ "NavigationManager" \notin Range(constructed)
        /\ initError =
              <<"Element with selector "
                \o (IF ".hamburger" \notin present THEN ".hamburger" ELSE ".nav-links")
                \o " not found">>
        /\ "click:.hamburger" \notin listeners
        /\ "click:.nav-links a" \notin listeners

C13_Witness ==
    /\ pc = "ready"
    /\ "NavigationManager" \in Range(attempted)
    /\ ".hamburger" \in present
    /\ ".nav-links" \notin present
    /\ initError = <<"Element with selector .nav-links not found">>
    /\ "ThemeManager" \in Range(constructed)


----------------------------------------------------------------------------
(* App: composition *)

\* C14: after an initialisation in which no constructor failed, the theme, navigation,
\* form and gallery managers have each been constructed exactly once, in the build's
\* fixed order, so the theme-toggle, hamburger and submit listeners are attached and the
\* project grid holds the rendered cards.
C14_EveryManagerConstructed ==
    (pc = "ready" /\ variant \in {"dist", "scroll"} /\ Len(constructed) = Len(attempted)
     /\ initError = <<>>) =>
        /\ constructed = AppOrder(variant)
        /\ \A i, j \in 1..Len(constructed) : constructed[i] = constructed[j] => i = j
        /\ {"ThemeManager", "NavigationManager", "FormManager", "ProjectManager"}
              \subseteq Range(constructed)
        /\ {"click:.theme-toggle", "click:.hamburger", "submit"} \subseteq listeners
        /\ container = renderProjects(projects, <<>>)


----------------------------------------------------------------------------
(* The contact form of the validating builds on a complete page, with the    *)
(* browser's timers firing: a timer that has been set fires eventually.      *)

InitForm ==
    /\ variant \in {"ts", "dist"}
    /\ present = Lookups(variant)
    /\ initialStored = Null
    /\ storage = initialStored
    /\ currentTheme = Unset
    /\ isDark = FALSE
    /\ darkClass = FALSE
    /\ listeners = {}
    /\ menuActive = FALSE
    /\ hamSinceLink = 0
    /\ fields = EmptyForm
    /\ pending = <<>>
    /\ alerts = <<>>
    /\ console = <<>>
    /\ ev = "none"
    /\ pc = "loading"
    /\ uncaught = FALSE
    /\ attempted = <<>>
    /\ constructed = <<>>
    /\ projects = ProjectsOf(variant)
    /\ container = <<>>
    /\ beforeClicks = <<>>
    /\ iconClass = "fa-moon"
    /\ outcome = NoOutcome
    /\ initError = <<>>
    /\ trace = <<>>
    /\ fired = 0
    /\ lookup = NoLookup
    /\ other = NoTab

NextForm ==
    \/ DOMContentLoaded
    \/ \E f \in {"name", "email", "message"} : \E v \in Inputs(f) : Input(f, v)
    \/ handleSubmit
    \/ submitFormResolves

SpecForm == InitForm /\ [][NextForm]_vars /\ WF_vars(submitFormResolves)

\* The transitions of the state machine Idle -> Validating -> Submitting ->
\* (Success | Failed) -> Idle.
ChainEdges ==
    {<<"Idle", "Validating">>, <<"Validating", "Submitting">>,
     <<"Submitting", "Success">>, <<"Submitting", "Failed">>,
     <<"Success", "Idle">>, <<"Failed", "Idle">>}

\* The submissions in flight, each named by the value `fired` has once its timer fired.
InFlightIds == {(fired + k) % (MaxPending + 1) : k \in 1..Len(pending)}

\* Every submission in flight is resolved and its attempt is back at Idle.
EveryAttemptReturnsToIdle ==
    \A n \in 0..MaxPending :
        (n \in InFlightIds) ~>
            (fired = n /\ ev = "timer" /\ trace # <<>> /\ trace[Len(trace)] = "Idle")

\* C15 as stated: every transition of an attempt is one of the chain Idle -> Validating
\* -> Submitting -> (Success | Failed) -> Idle, and every attempt returns to Idle.
C15_OnlyChainTransitions ==
    /\ [](\A i \in 1..(Len(trace) - 1) : <<trace[i], trace[i + 1]>> \in ChainEdges)
    /\ EveryAttemptReturnsToIdle

\* C15 amended: an attempt goes from Idle to Validating; when validation fails it shows
\* the error and returns straight to Idle without entering Submitting; Submitting is
\* entered only from Validating with data that pass all three checks; Success is entered
\* only from Submitting, when the timer fires, and is followed by Idle; Failed is never
\* entered; and every attempt in flight eventually returns to Idle.
C15_PhasesWithValidationExit ==
    /\ [](/\ trace \in {<<>>, <<"Idle", "Validating", "Idle">>,
                        <<"Idle", "Validating", "Submitting">>,
                        <<"Submitting", "Success", "Idle">>}
          /\ (trace = <<"Idle", "Validating", "Submitting">>) =>
                /\ ev = "submit"
                /\ pending # <<>>
                /\ LET data == pending[Len(pending)]
                   IN /\ data = getFormData(fields)
                      /\ data.name # <<>>
                      /\ emailRegexTest(data.email)
                      /\ data.message # <<>>
          /\ (trace = <<"Idle", "Validating", "Idle">>) =>
                /\ ev = "submit"
                /\ Len(alerts) = 1
                /\ LET data == getFormData(fields)
                   IN data.name = <<>> \/ ~emailRegexTest(data.email) \/ data.message = <<>>
          /\ (trace = <<"Submitting", "Success", "Idle">>) =>
                (ev = "timer" /\ alerts = <<SuccessMessage>>))
    /\ EveryAttemptReturnsToIdle

C15_Witness ==
    /\ ev = "timer"
    /\ trace = <<"Submitting", "Success", "Idle">>
    /\ fired = 2
    /\ pending = <<>>
    /\ fields = EmptyForm


----------------------------------------------------------------------------
(* Re-entrant submission *)

\* C16: in the validating builds a submit that arrives while submissions are in flight
\* is validated like any other and, when its data are valid, adds its own submission to
\* those in flight, which stay as they are; each firing of a timer completes exactly one
\* submission, the oldest, with one success notification and one reset of the form.
C16_ReentrantSubmission ==
    [][/\ (ev' = "submit" /\ variant \in {"ts", "dist"} /\ pending # <<>>) =>
             LET data == getFormData(fields)
             IN IF data.name # <<>> /\ emailRegexTest(data.email) /\ data.message # <<>>
                THEN /\ pending' = pending \o <<data>>
                     /\ alerts' = <<>>
                ELSE /\ pending' = pending
                     /\ Len(alerts') = 1
       /\ (ev' = "timer") =>
             /\ Len(pending') = Len(pending) - 1
             /\ \A i \in 1..Len(pending') : pending'[i] = pending[i + 1]
             /\ alerts' = <<SuccessMessage>>
             /\ fields' = EmptyForm]_vars

C16_Witness ==
    /\ ev = "submit"
    /\ Len(pending) = 2
    /\ pending[1] = pending[2]
    /\ alerts = <<>>


----------------------------------------------------------------------------
(* The writers of the stored theme *)

\* C17 as stated: the stored theme changes only in a click on the toggle, so
\* initialisation leaves the storage as it found it, and every click stores the new
\* state.
C17_StorageWrittenOnlyByClick ==
    [][/\ (storage' # storage) => (ev' = "themeClick")
       /\ (ev' = "themeClick") => (storage' = Some(InMemoryTheme'))]_vars

\* C17 amended: the stored theme is written by the constructor of the ThemeManager,
\* which stores the state it starts in (so an absent key becomes "light"), and by every
\* click on the toggle, which stores the new state; no other handler changes it, and an
\* initialisation whose ThemeManager constructor throws leaves it as it was.
C17_StorageWrittenByInitAndClick ==
    [][/\ (storage' # storage) => (ev' \in {"DOMContentLoaded", "themeClick"})
       /\ (ev' = "themeClick") =>
             (storage' = Some(InMemoryTheme') /\ InMemoryTheme' # InMemoryTheme)
       /\ (ev' = "DOMContentLoaded") =>
             IF "ThemeManager" \in Range(constructed')
             THEN storage' = Some(InMemoryTheme')
             ELSE storage' = storage]_vars

C17_Witness ==
    /\ ev = "DOMContentLoaded"
    /\ "ThemeManager" \in Range(constructed)
    /\ initialStored = Null
    /\ storage = Some("light")


----------------------------------------------------------------------------
(* The icon of the theme toggle *)

\* C18: on a page whose .theme-toggle holds no icon element the ThemeManager is
\* constructed and its click listener attached, no click on the toggle throws, and after
\* initialisation and after every click the dark class and the stored value are those of
\* the theme held in memory, as on a page with the icon; no glyph class is touched.
C18_IconSwapBestEffort ==
    (pc = "ready" /\ ".theme-toggle" \in present /\ ".theme-toggle i" \notin present) =>
        /\ "ThemeManager" \in Range(constructed)
        /\ "click:.theme-toggle" \in listeners
        /\ (initError # <<>>) => (attempted[Len(attempted)] # "ThemeManager")
        /\ (ev = "themeClick") => ~outcome.threw
        /\ darkClass = (InMemoryTheme = "dark")
        /\ storage = Some(InMemoryTheme)
        /\ iconClass = "none"

C18_Witness ==
    /\ pc = "ready"
    /\ ".theme-toggle" \in present
    /\ ".theme-toggle i" \notin present
    /\ ev = "themeClick"
    /\ ~outcome.threw
    /\ darkClass
    /\ storage = Some("dark")
    /\ Len(beforeClicks) = 2


----------------------------------------------------------------------------
(* Validation failures *)

\* C19: in the validating builds a submit whose data fail a check shows one error and
\* changes nothing else: the three controls keep their values, the submissions in flight
\* stay as they are, and the rest of the page's state is as before the attempt, so what
\* follows is handled as it would have been without it.
C19_FailedValidationChangesNothing ==
    [][(/\ ev' = "submit"
        /\ variant \in {"ts", "dist"}
        /\ LET data == getFormData(fields)
           IN data.name = <<>> \/ ~emailRegexTest(data.email) \/ data.message = <<>>) =>
          /\ fields' = fields
          /\ pending' = pending
          /\ fired' = fired
          /\ Len(alerts') = 1
          /\ alerts'[1] # SuccessMessage
          /\ UNCHANGED <<variant, present, storage, currentTheme, isDark, darkClass,
                         listeners, menuActive, pc, uncaught, attempted, constructed,
                         projects, container, iconClass, initError>>]_vars

C19_Witness ==
    /\ ev = "submit"
    /\ trace = <<"Idle", "Validating", "Idle">>
    /\ alerts = <<"Error: Please enter a valid email">>
    /\ pending # <<>>
    /\ fields.name # <<>>
    /\ fields.message # <<>>


----------------------------------------------------------------------------
(* The email check as a function of the string typed: the form of the        *)
(* validating source build holds a name, a message and an email drawn from   *)
(* the strings of up to MaxEmailLen characters over a small alphabet.        *)

EmailAlphabet == {"a", "@", ".", " "}

Emails == UNION {[1..n -> EmailAlphabet] : n \in 0..MaxEmailLen}

InitEmail ==
    /\ variant = "ts"
    /\ present = Lookups(variant)
    /\ initialStored = Null
    /\ storage = initialStored
    /\ currentTheme = Unset
    /\ isDark = FALSE
    /\ darkClass = FALSE
    /\ listeners = {}
    /\ menuActive = FALSE
    /\ hamSinceLink = 0
    /\ \E email \in Emails :
          fields = [name |-> <<"J", "o">>, email |-> email, message |-> <<"h", "i">>]
    /\ pending = <<>>
    /\ alerts = <<>>
    /\ console = <<>>
    /\ ev = "none"
    /\ pc = "loading"
    /\ uncaught = FALSE
    /\ attempted = <<>>
    /\ constructed = <<>>
    /\ projects = ProjectsOf(variant)
    /\ container = <<>>
    /\ beforeClicks = <<>>
    /\ iconClass = "fa-moon"
    /\ outcome = NoOutcome
    /\ initError = <<>>
    /\ trace = <<>>
    /\ fired = 0
    /\ lookup = NoLookup
    /\ other = NoTab

NextEmail ==
    \/ DOMContentLoaded
    \/ handleSubmit
    \/ submitFormResolves

SpecEmail == InitEmail /\ [][NextEmail]_vars

\* C20 as stated: a submit with a name and a message is accepted exactly when the
\* trimmed email holds exactly one "@", no whitespace and a "." somewhere after the "@",
\* and is otherwise rejected with the email error.
C20_AcceptsOneAtDotAfter ==
    (ev = "submit" /\ fields.name = <<"J", "o">>) =>
        LET e == trim(fields.email)
            ats == {i \in 1..Len(e) : e[i] = "@"}
        IN IF /\ Cardinality(ats) = 1
              /\ \A k \in 1..Len(e) : e[k] # " "
              /\ \E i \in ats : \E j \in 1..Len(e) : i < j /\ e[j] = "."
           THEN alerts = <<>> /\ pending # <<>> /\ pending[Len(pending)].email = e
           ELSE alerts = <<"Error: Please enter a valid email">>

\* C20 amended: the trimmed email is accepted exactly when it holds exactly one "@",
\* which is not its first character, no whitespace, and a "." that is neither the
\* character right after the "@" nor the last character; every other string is rejected
\* with the email error.
C20_AcceptsLocalDomainTld ==
    (ev = "submit" /\ fields.name = <<"J", "o">>) =>
        LET e == trim(fields.email)
            ats == {i \in 1..Len(e) : e[i] = "@"}
        IN IF /\ Cardinality(ats) = 1
              /\ \A k \in 1..Len(e) : e[k] # " "
              /\ \E i \in ats : /\ i > 1
                                /\ \E j \in 1..Len(e) :
                                      i + 1 < j /\ j < Len(e) /\ e[j] = "."
           THEN alerts = <<>> /\ pending # <<>> /\ pending[Len(pending)].email = e
           ELSE alerts = <<"Error: Please enter a valid email">> /\ pending = <<>>

C20_Witness ==
    /\ ev = "submit"
    /\ fields.email = <<"a", "@", ".", "a">>
    /\ alerts = <<"Error: Please enter a valid email">>
    /\ pending = <<>>

----------------------------------------------------------------------------
(* The three representations of the theme *)

\* C21: once the ThemeManager has been constructed, after initialisation and after any
\* number of clicks on the toggle, body carries the dark class exactly when the theme
\* held in memory is the dark one, and the stored value is the theme held in memory.
C21_RepresentationsAgree ==
    ThemeReady =>
        /\ darkClass <=> (IF variant = "scroll" THEN isDark ELSE currentTheme = "dark")
        /\ storage # Null
        /\ storage[1] = (IF variant = "scroll"
                         THEN (IF isDark THEN "dark" ELSE "light")
                         ELSE currentTheme)

C21_Witness ==
    /\ ThemeReady
    /\ variant = "dist"
    /\ ev = "themeClick"
    /\ initialStored = Some("dark")
    /\ currentTheme = "dark"
    /\ darkClass
    /\ storage = Some("dark")
    /\ Len(beforeClicks) = 2

----------------------------------------------------------------------------
(* Notifications per submission attempt *)

\* C22: a submit handled by the validating FormManager either shows exactly one error
\* at once and sets no timer, or shows nothing and sets exactly one timer; a timer that
\* fires shows exactly one notification, the success message, and no other handler shows
\* a notification or sets or clears a timer; every timer in flight fires eventually. So
\* each attempt gets exactly one notification, never a success and an error both.
C22_OneNotificationPerAttempt ==
    /\ [][/\ (ev' = "submit") =>
                /\ Len(alerts') + (Len(pending') - Len(pending)) = 1
                /\ Len(alerts') \in {0, 1}
                /\ SuccessMessage \notin Range(alerts')
          /\ (ev' = "timer") =>
                /\ alerts' = <<SuccessMessage>>
                /\ Len(pending') = Len(pending) - 1
          /\ (ev' \notin {"submit", "timer"}) =>
                (alerts' = <<>> /\ pending' = pending)]_vars
    /\ \A n \in 0..MaxPending :
          (n \in InFlightIds) ~> (fired = n /\ ev = "timer" /\ Len(alerts) = 1)

C22_Witness ==
    /\ ev = "timer"
    /\ alerts = <<SuccessMessage>>
    /\ fired = 1
    /\ Len(pending) = 1

----------------------------------------------------------------------------
(* The record of a submission *)

\* C23: a submission's record is the trimmed values the controls held at its submit
\* event; typing into the controls and further submits leave the records in flight as
\* they are; when a timer fires, submitForm logs the record taken at that submission's
\* submit event and the reset empties all three controls, whatever was typed since.
C23_RecordIsSnapshot ==
    [][/\ (ev' = "input") => (pending' = pending)
       /\ (ev' = "submit") =>
             /\ Len(pending') \in {Len(pending), Len(pending) + 1}
             /\ \A i \in 1..Len(pending) : pending'[i] = pending[i]
             /\ (Len(pending') = Len(pending) + 1) =>
                   (pending'[Len(pending')] =
                       [name |-> trim(fields.name), email |-> trim(fields.email),
                        message |-> trim(fields.message)])
       /\ (ev' = "timer") =>
             /\ console' = <<[text |-> "Form submitted:", data |-> pending[1]]>>
             /\ pending' = Tail(pending)
             /\ fields' = [name |-> <<>>, email |-> <<>>, message |-> <<>>]]_vars

C23_Witness ==
    /\ ev = "input"
    /\ pending # <<>>
    /\ pending[1].email = <<"a", "@", "b", ".", "c">>
    /\ fields.email = <<"n", "o">>
    /\ fields.name # <<>>

----------------------------------------------------------------------------
(* What each manager's handlers write *)

\* C24: a click on the theme toggle leaves the menu, the form controls, the submissions
\* in flight and the project grid as they are; a click on the hamburger or on a nav link
\* changes nothing but the menu's active class; a submit event changes nothing but the
\* form controls and the submissions in flight. None of them attaches or removes a
\* listener.
C24_ManagersIndependent ==
    [][/\ (ev' = "themeClick") =>
             UNCHANGED <<menuActive, fields, pending, fired, container, projects,
                         listeners, present>>
       /\ (ev' \in {"hamburgerClick", "navLinkClick"}) =>
             UNCHANGED <<storage, currentTheme, isDark, darkClass, iconClass, fields,
                         pending, fired, container, projects, listeners, present>>
       /\ (ev' = "submit") =>
             UNCHANGED <<storage, currentTheme, isDark, darkClass, iconClass, menuActive,
                         container, projects, listeners, present>>]_vars

C24_Witness ==
    /\ ev = "themeClick"
    /\ variant = "scroll"
    /\ menuActive
    /\ fields.name # <<>>
    /\ darkClass
    /\ iconClass = "fa-sun"

----------------------------------------------------------------------------
(* App: a failed initialisation *)

\* C25: when a constructor has thrown, the listeners of every manager constructed before
\* it are attached and stay attached, those of every manager after it are never attached
\* and a ProjectManager after it never renders the grid; nothing is attached, removed or
\* rendered later, and a click on the toggle of a ThemeManager constructed before the
\* failure still flips the theme, sets the class from it and stores it.
C25_NoRollback ==
    /\ [](LET order == AppOrder(variant)
              k == Len(constructed) + 1
              Bound(m) ==
                  CASE m = "ThemeManager" -> {"click:.theme-toggle"}
                    [] m = "NavigationManager" ->
                          {"click:.hamburger", "click:.nav-links a"}
                    [] m = "FormManager" -> {"submit"}
                    [] m = "ProjectManager" -> {}
                    [] m = "SmoothScrollManager" -> {"click:a[href^=#]"}
          IN (pc = "ready" /\ k <= Len(order)) =>
                /\ initError # <<>>
                /\ \A i \in 1..Len(order) :
                      /\ (i < k) => (Bound(order[i]) \subseteq listeners)
                      /\ (i > k) =>
                            /\ Bound(order[i]) \cap listeners = {}
                            /\ (order[i] = "ProjectManager") =>
                                  \A c \in 1..Len(container) :
                                      container[c].dataProjectId = 0)
    /\ [][(pc = "ready") =>
             UNCHANGED <<listeners, container, constructed, attempted, initError>>]_vars
    /\ [][(ev' = "themeClick" /\ initError # <<>>) =>
             /\ InMemoryTheme' # InMemoryTheme
             /\ InMemoryTheme' \in {"light", "dark"}
             /\ darkClass' = (InMemoryTheme' = "dark")
             /\ storage' = <<InMemoryTheme'>>]_vars

C25_Witness ==
    /\ ev = "themeClick"
    /\ variant = "ts"
    /\ "#contact-form" \notin present
    /\ ".project-grid" \in present
    /\ initError = <<"Contact form not found">>
    /\ constructed = <<"ThemeManager">>
    /\ storage = Some("dark")
    /\ darkClass
    /\ Len(container) = 1

----------------------------------------------------------------------------
(* Constructors that fail in bindEvents *)

\* C26: on a page with the hamburger and the link container but no anchor inside the
\* container, the NavigationManager constructor throws the getElements error for
\* '.nav-links a' after it has attached the hamburger listener: the manager is not
\* constructed, no nav-link listener exists, and hamburger clicks go on toggling the
\* menu. On a page without any in-page anchor the SmoothScrollManager constructor throws
\* the getElements error and attaches nothing.
C26_FailsAfterBindingHamburger ==
    /\ [](/\ (/\ pc = "ready"
              /\ "NavigationManager" \in Range(attempted)
              /\ ".hamburger" \in present
              /\ ".nav-links" \in present
              /\ ".nav-links a" \notin present) =>
                /\ "NavigationManager" \notin Range(constructed)
                /\ initError = <<"No elements found with selector .nav-links a">>
                /\ "click:.hamburger" \in listeners
                /\ "click:.nav-links a" \notin listeners
          /\ (/\ pc = "ready"
              /\ "SmoothScrollManager" \in Range(attempted)
              /\ "a[href^=#]" \notin present) =>
                /\ "SmoothScrollManager" \notin Range(constructed)
                /\ initError = <<"No elements found with selector a[href^=#]">>
                /\ "click:a[href^=#]" \notin listeners)
    /\ [][(ev' = "hamburgerClick" /\ "NavigationManager" \notin Range(constructed)) =>
             (menuActive' = ~menuActive)]_vars

C26_Witness ==
    /\ ev = "hamburgerClick"
    /\ "NavigationManager" \in Range(attempted)
    /\ "NavigationManager" \notin Range(constructed)
    /\ ".nav-links a" \notin present
    /\ initError = <<"No elements found with selector .nav-links a">>
    /\ hamSinceLink = 2
    /\ ~menuActive

----------------------------------------------------------------------------
(* Two tabs of the same page sharing localStorage: each tab runs its own     *)
(* ThemeManager on its own document; the script has no 'storage' listener.   *)

\* The theme the second tab's manager holds in memory.
OtherTheme ==
    IF variant = "scroll" THEN (IF other.isDark THEN "dark" ELSE "light")
    ELSE other.currentTheme

InitTabs ==
    /\ variant \in {"ts", "dist", "scroll"}
    /\ present = Lookups(variant)
    /\ initialStored \in StartupStored
    /\ storage = initialStored
    /\ currentTheme = Unset
    /\ isDark = FALSE
    /\ darkClass = FALSE
    /\ listeners = {}
    /\ menuActive = FALSE
    /\ hamSinceLink = 0
    /\ fields = EmptyForm
    /\ pending = <<>>
    /\ alerts = <<>>
    /\ console = <<>>
    /\ ev = "none"
    /\ pc = "loading"
    /\ uncaught = FALSE
    /\ attempted = <<>>
    /\ constructed = <<>>
    /\ projects = ProjectsOf(variant)
    /\ container = <<>>
    /\ beforeClicks = <<>>
    /\ iconClass = "fa-moon"
    /\ outcome = NoOutcome
    /\ initError = <<>>
    /\ trace = <<>>
    /\ fired = 0
    /\ lookup = NoLookup
    /\ other = [NoTab EXCEPT !.pc = "loading"]

\* DOMContentLoaded in the second tab: its ThemeManager constructor reads the stored
\* value, applies it to that tab's body and stores it.
OtherLoaded ==
    /\ other.pc = "loading"
    /\ other' = [pc |-> "ready",
                 currentTheme |-> IF variant = "scroll" THEN Unset
                                  ELSE InitialTheme(storage),
                 isDark |-> IF variant = "scroll" THEN InitialIsDark(storage) ELSE FALSE,
                 darkClass |-> ThemeCtorClass(variant, storage, present, other.darkClass)]
    /\ storage' = ThemeCtorStored(variant, storage, present)
    /\ ev' = "otherLoaded"
    /\ alerts' = <<>>
    /\ console' = <<>>
    /\ beforeClicks' = <<>>
    /\ outcome' = NoOutcome
    /\ trace' = <<>>
    /\ UNCHANGED <<variant, present, initialStored, currentTheme, isDark, darkClass,
                   listeners, menuActive, hamSinceLink, fields, pending, pc, uncaught,
                   attempted, constructed, projects, container, iconClass, initError,
                   fired, lookup>>

\* click on .theme-toggle in the second tab.
OtherToggleClick ==
    /\ other.pc = "ready"
    /\ IF variant = "scroll"
       THEN /\ other' = [other EXCEPT !.isDark = ~other.isDark,
                                      !.darkClass = IsDarkClass(~other.isDark)]
            /\ storage' = IsDarkStored(~other.isDark)
       ELSE LET theme == NextTheme(ToggleSource(other.currentTheme, storage))
            IN /\ other' = [other EXCEPT !.currentTheme = theme,
                                         !.darkClass = ThemeClass(theme)]
               /\ storage' = ThemeStored(theme)
    /\ ev' = "otherClick"
    /\ alerts' = <<>>
    /\ console' = <<>>
    /\ beforeClicks' = <<>>
    /\ outcome' = NoOutcome
    /\ trace' = <<>>
    /\ UNCHANGED <<variant, present, initialStored, currentTheme, isDark, darkClass,
                   listeners, menuActive, hamSinceLink, fields, pending, pc, uncaught,
                   attempted, constructed, projects, container, iconClass, initError,
                   fired, lookup>>

NextTabs ==
    \/ DOMContentLoaded
    \/ ThemeToggleClick
    \/ OtherLoaded
    \/ OtherToggleClick

SpecTabs == InitTabs /\ [][NextTabs]_vars

\* C27: with two tabs on one storage, a click flips the theme the clicked tab's manager
\* holds in memory, whatever the storage holds, and leaves the other tab's manager and
\* body alone; after every initialisation and every click the stored value is the theme
\* of the tab that initialised or was clicked last.
C27_LastWriterWins ==
    /\ [](/\ (ev \in {"DOMContentLoaded", "themeClick"}) => (storage = <<InMemoryTheme>>)
          /\ (ev \in {"otherLoaded", "otherClick"}) => (storage = <<OtherTheme>>))
    /\ [][/\ (ev' = "themeClick") =>
                /\ InMemoryTheme' = (IF InMemoryTheme = "light" THEN "dark" ELSE "light")
                /\ darkClass' = (InMemoryTheme' = "dark")
                /\ other' = other
          /\ (ev' = "otherClick") =>
                /\ OtherTheme' = (IF OtherTheme = "light" THEN "dark" ELSE "light")
                /\ other'.darkClass = (OtherTheme' = "dark")
                /\ UNCHANGED <<currentTheme, isDark, darkClass>>]_vars

\* The first tab shows the light theme while the storage holds the dark one the second
\* tab has just stored.
C27_Witness ==
    /\ ev = "otherClick"
    /\ pc = "ready"
    /\ InMemoryTheme = "light"
    /\ ~darkClass
    /\ OtherTheme = "dark"
    /\ other.darkClass
    /\ storage = Some("dark")

====
